---- MODULE Spec2Model ----
(***************************************************************************)
(* A model of movingpandas.trajectory.Trajectory: construction from a      *)
(* time-indexed point table, and the add_<metric> operations that derive   *)
(* per-row columns from consecutive samples.                               *)
(*                                                                         *)
(* Timestamps are integers (seconds).  A position is a pair <<x, y>>.      *)
(* A cell of a derived column is a triple <<kind, n, d>>: a float n/d in   *)
(* lowest terms, a timedelta of n seconds, NaN, NaT, a point, None or the  *)
(* trajectory id.  Floats are exact rationals.                             *)
(***************************************************************************)
EXTENDS Integers, Sequences, FiniteSets, TLC

VARIABLES pc, input, traj, last, ncalls, other, same_df, out

vars == <<pc, input, traj, last, ncalls, other, same_df, out>>

----------------------------------------------------------------------------
(* Bounds of the model *)

MaxRows == 3

MaxTime == 4

MaxCalls == 2

Points == {<<0, 0>>, <<3, 0>>}

CrsChoices == {"epsg:4326", "epsg:31256"}

----------------------------------------------------------------------------
(* Column names set at the top of trajectory.py *)

ACCELERATION_COL_NAME == "acceleration"

ANGULAR_DIFFERENCE_COL_NAME == "angular_difference"

DIRECTION_COL_NAME == "direction"

DISTANCE_COL_NAME == "distance"

SPEED_COL_NAME == "speed"

TIMEDELTA_COL_NAME == "timedelta"

TRAJ_ID_COL_NAME == "traj_id"

(* An attribute that was never assigned (hasattr is false) *)
Unset == "<unset>"

(* The value None *)
None == "<none>"

(* None where an id is expected; ids are positive integers *)
NoId == 0

----------------------------------------------------------------------------
(* Cells *)

Abs(x) == IF x < 0 THEN -x ELSE x

RECURSIVE Gcd(_, _)
Gcd(a, b) == IF b = 0 THEN a ELSE Gcd(b, a % b)

(* the float n/d, d # 0, in lowest terms with a positive denominator *)
F(n, d) ==
    LET s == IF d < 0 THEN -1 ELSE 1
        g == Gcd(Abs(n), Abs(d))
    IN  <<"float", (s * n) \div g, (s * d) \div g>>

NaN == <<"nan", 0, 1>>

NaT == <<"nat", 0, 1>>

NoneCell == <<"none", 0, 1>>

Td(s) == <<"timedelta", s, 1>>

PtCell(p) == <<"point", p[1], p[2]>>

IdCell(i) == <<"id", i, 1>>

IsFloat(c) == c[1] = "float"

IsPointCell(c) == c[1] = "point"

(* float arithmetic; NaN propagates.  Common factors are cancelled before  *)
(* the products are formed.                                                *)
FMul(a, b) ==
    IF ~(IsFloat(a) /\ IsFloat(b)) THEN NaN
    ELSE LET g1 == Gcd(Abs(a[2]), b[3])
             g2 == Gcd(Abs(b[2]), a[3])
         IN  F((a[2] \div g1) * (b[2] \div g2), (a[3] \div g2) * (b[3] \div g1))

FInv(b) == IF b[2] < 0 THEN <<"float", -b[3], -b[2]>> ELSE <<"float", b[3], b[2]>>

FDiv(a, b) ==
    IF IsFloat(a) /\ IsFloat(b) /\ b[2] # 0 THEN FMul(a, FInv(b)) ELSE NaN

FSub(a, b) ==
    IF ~(IsFloat(a) /\ IsFloat(b)) THEN NaN
    ELSE LET g == Gcd(a[3], b[3])
         IN  F(a[2] * (b[3] \div g) - b[2] * (a[3] \div g), (a[3] \div g) * b[3])

Zero == F(0, 1)

----------------------------------------------------------------------------
(* DataFrame: a time index, the geometry column and the further columns in *)
(* their order, each a name with one cell per row.                         *)

Range(s) == {s[i] : i \in 1..Len(s)}

ColNames(df) == {df.columns[i].name : i \in 1..Len(df.columns)}

HasCol(df, name) == name \in ColNames(df)

ColIdx(df, name) == CHOOSE i \in 1..Len(df.columns) : df.columns[i].name = name

ColVals(df, name) == df.columns[ColIdx(df, name)].vals

NRows(df) == Len(df.index)

(* df[name] = vals / df.assign(name=vals): replace in place, else append *)
Assign(df, name, vals) ==
    IF HasCol(df, name)
    THEN [df EXCEPT !.columns[ColIdx(df, name)] = [name |-> name, vals |-> vals]]
    ELSE [df EXCEPT !.columns = Append(@, [name |-> name, vals |-> vals])]

(* df.at[first index label, name] = cell *)
SetFirst(df, name, cell) ==
    [df EXCEPT !.columns[ColIdx(df, name)].vals[1] = cell]

RECURSIVE SelectCols(_, _)
SelectCols(cs, drop) ==
    IF cs = <<>> THEN <<>>
    ELSE IF Head(cs).name \in drop THEN SelectCols(Tail(cs), drop)
         ELSE <<Head(cs)>> \o SelectCols(Tail(cs), drop)

(* df.drop(columns=names) *)
Drop(df, names) == [df EXCEPT !.columns = SelectCols(@, names)]

(* Series.shift(): each row gets the previous row's cell, the first gets `fill` *)
Shift(vals, fill) == [i \in 1..Len(vals) |-> IF i = 1 THEN fill ELSE vals[i - 1]]

GeomCells(df) == [i \in 1..NRows(df) |-> PtCell(df.geometry[i])]

----------------------------------------------------------------------------
(* Trajectory.__init__ *)

(* What the CRS resolver reports for a CRS: the unit name of its first     *)
(* axis and whether it is geographic.                                      *)
CrsUnitName(crs) == IF crs = "epsg:4326" THEN "degree" ELSE "metre"

CrsIsGeographic(crs) == crs = "epsg:4326"

IsMonotonicIncreasing(rows) ==
    \A i \in 1..(Len(rows) - 1) : rows[i].t <= rows[i + 1].t

IndexPermutations(n) ==
    {p \in [1..n -> 1..n] : \A i, j \in 1..n : p[i] = p[j] => i = j}

(* df.sort_index(): an index that is already non-decreasing is left as it  *)
(* is; otherwise the rows are sorted with the default kind "quicksort",    *)
(* which is not a stable sort: rows of equal timestamp come out in an      *)
(* order the sort does not specify.                                        *)
SortIndex(rows) ==
    IF IsMonotonicIncreasing(rows) THEN {rows}
    ELSE LET n == Len(rows)
             sorted == {[i \in 1..n |-> rows[p[i]]] : p \in IndexPermutations(n)}
         IN  {s \in sorted : IsMonotonicIncreasing(s)}

RECURSIVE KeepFirst(_, _)
KeepFirst(rows, seen) ==
    IF rows = <<>> THEN <<>>
    ELSE IF Head(rows).t \in seen THEN KeepFirst(Tail(rows), seen)
         ELSE <<Head(rows)>> \o KeepFirst(Tail(rows), seen \cup {Head(rows).t})

(* df[~df.index.duplicated(keep="first")] *)
DropDuplicated(rows) == KeepFirst(rows, {})

MakeDf(rows) ==
    [index    |-> [i \in 1..Len(rows) |-> rows[i].t],
     geometry |-> [i \in 1..Len(rows) |-> rows[i].pt],
     columns  |-> <<>>]

NoTraj ==
    [df |-> MakeDf(<<>>), id |-> NoId, obj_id |-> NoId, crs |-> None,
     crs_units |-> None, is_latlon |-> FALSE, parent |-> None,
     speed_col_name |-> Unset, distance_col_name |-> Unset,
     direction_col_name |-> Unset, angular_difference_col_name |-> Unset,
     timedelta_col_name |-> Unset, acceleration_col_name |-> Unset]

(* the trajectory __init__ builds from the rows it stores *)
NewTrajectory(rows, traj_id, obj_id, crs, parent) ==
    [NoTraj EXCEPT
       !.df = MakeDf(rows), !.id = traj_id, !.obj_id = obj_id, !.crs = crs,
       !.parent = parent,
       !.crs_units = IF crs # None THEN CrsUnitName(crs) ELSE None,
       !.is_latlon = IF crs # None THEN CrsIsGeographic(crs) ELSE FALSE]

(* The outcomes of Trajectory(df, traj_id, obj_id, crs=..., parent=...):   *)
(* records [ok, traj].  Fewer than two input rows raise ValueError.        *)
InitOutcomes(in) ==
    IF Len(in.rows) < 2 THEN {[ok |-> FALSE, traj |-> NoTraj]}
    ELSE {[ok |-> TRUE,
           traj |-> NewTrajectory(DropDuplicated(s), in.id, in.obj_id, in.crs, None)]
          : s \in SortIndex(in.rows)}

Tables(n) == [1..n -> [t : 1..MaxTime, pt : Points]]

Inputs ==
    {[rows |-> r, id |-> 1, obj_id |-> 5, crs |-> c]
       : r \in UNION {Tables(n) : n \in 1..MaxRows}, c \in CrsChoices}

NoInput == [rows |-> <<>>, id |-> NoId, obj_id |-> NoId, crs |-> None]

NoUnits == [distance |-> None, time |-> None, time2 |-> None]

NoCall == [op |-> "none", name |-> None, overwrite |-> FALSE, units |-> NoUnits,
           result |-> "ok"]

CallOf(op, name, overwrite, units, result) ==
    [op |-> op, name |-> name, overwrite |-> overwrite, units |-> units,
     result |-> result]

(* No query was made: the arguments and the value of the last query, and   *)
(* the trajectory ("traj" or "other") the last call was made on            *)
NoOut ==
    [on |-> "traj", t1 |-> 0, t2 |-> 0, method |-> None, kind |-> "none",
     row |-> 0, pt |-> <<NaN, NaN>>, line |-> <<>>, val |-> NaN]

InitCtor ==
    /\ pc = "new"
    /\ input \in Inputs
    /\ traj = NoTraj
    /\ last = NoCall
    /\ ncalls = 0
    /\ other = NoTraj
    /\ same_df = FALSE
    /\ out = NoOut

Construct ==
    /\ pc = "new"
    /\ \E o \in InitOutcomes(input) :
         /\ pc' = IF o.ok THEN "ready" ELSE "error"
         /\ traj' = o.traj
         /\ last' = CallOf("__init__", None, FALSE, NoUnits,
                           IF o.ok THEN "ok" ELSE "ValueError")
    /\ UNCHANGED <<input, ncalls, other, same_df, out>>

NextCtor == Construct

SpecCtor == InitCtor /\ [][NextCtor]_vars

----------------------------------------------------------------------------
(* Units (unit_utils) and geodesy (geometry_utils, geopy), used through    *)
(* their interfaces.                                                       *)

UNITS(distance, time, time2) == [distance |-> distance, time |-> time, time2 |-> time2]

(* metres per distance unit, for the unit names the model uses *)
DistanceUnits == {"m", "km", "metre"}

DistanceFactor(u) == IF u = "km" THEN 1000 ELSE 1

TimeUnits == {"s", "min", "h"}

TimeFactor(u) == IF u = "h" THEN 3600 ELSE IF u = "min" THEN 60 ELSE 1

(* get_conversion(units, crs_units): the factors crs (native unit in       *)
(* metres, 1 when the native unit is unknown or no distance unit is        *)
(* requested), distance (requested unit in metres), time and time2; an     *)
(* unknown unit name is an error.                                          *)
get_conversion(units, crs_units) ==
    IF \/ units.distance # None /\ units.distance \notin DistanceUnits
       \/ units.time # None /\ units.time \notin TimeUnits
       \/ units.time2 # None /\ units.time2 \notin TimeUnits
    THEN [ok |-> FALSE, crs |-> 1, distance |-> 1, time |-> 1, time2 |-> 1]
    ELSE [ok |-> TRUE,
          crs |-> IF units.distance # None /\ crs_units \in DistanceUnits
                  THEN DistanceFactor(crs_units) ELSE 1,
          distance |-> IF units.distance # None THEN DistanceFactor(units.distance) ELSE 1,
          time |-> IF units.time # None THEN TimeFactor(units.time) ELSE 1,
          time2 |-> IF units.time2 # None THEN TimeFactor(units.time2) ELSE 1]

ISqrt(n) == CHOOSE r \in 0..n : r * r = n

(* Euclidean distance in CRS units; exact on Points *)
measure_distance_euclidean(p0, p1) ==
    F(ISqrt((p1[1] - p0[1]) * (p1[1] - p0[1]) + (p1[2] - p0[2]) * (p1[2] - p0[2])), 1)

(* geodesic distance in metres between two (lon, lat) points, to the metre *)
measure_distance_geodesic(p0, p1) ==
    LET dx == Abs(p1[1] - p0[1])
        dy == Abs(p1[2] - p0[2])
    IN  IF dx = 0 /\ dy = 0 THEN Zero
        ELSE IF dy = 0 THEN F(111319 * dx, 1)
        ELSE IF dx = 0 THEN F(110574 * dy, 1)
        ELSE F(554058, 1)

(* planar azimuth in degrees clockwise from north, in [0, 360) *)
azimuth(p0, p1) ==
    LET dx == p1[1] - p0[1]
        dy == p1[2] - p0[2]
    IN  IF dx = 0 THEN (IF dy >= 0 THEN Zero ELSE F(180, 1))
        ELSE IF dy = 0 THEN (IF dx > 0 THEN F(90, 1) ELSE F(270, 1))
        ELSE IF dx > 0 THEN F(368699, 10000)
        ELSE F(2168699, 10000)

(* initial compass bearing on the sphere, in [0, 360) *)
calculate_initial_compass_bearing(p0, p1) ==
    LET dx == p1[1] - p0[1]
        dy == p1[2] - p0[2]
    IN  IF dx = 0 THEN (IF dy >= 0 THEN Zero ELSE F(180, 1))
        ELSE IF dy = 0 THEN (IF dx > 0 THEN F(90, 1) ELSE F(270, 1))
        ELSE IF dx > 0 THEN F(36813, 1000)
        ELSE F(216918, 1000)

(* the smaller absolute angle between two bearings, in [0, 180] *)
angular_difference(a, b) ==
    IF ~(IsFloat(a) /\ IsFloat(b)) THEN NaN
    ELSE LET d == FSub(a, b)
             ad == F(Abs(d[2]), d[3])
         IN  IF ad[2] > 180 * ad[3] THEN FSub(F(360, 1), ad) ELSE ad

----------------------------------------------------------------------------
(* Column name getters *)

get_speed_column_name(t) ==
    IF t.speed_col_name # Unset THEN t.speed_col_name ELSE SPEED_COL_NAME

get_distance_column_name(t) ==
    IF t.distance_col_name # Unset THEN t.distance_col_name ELSE DISTANCE_COL_NAME

get_direction_column_name(t) ==
    IF t.direction_col_name # Unset THEN t.direction_col_name ELSE DIRECTION_COL_NAME

get_angular_difference_column_name(t) ==
    IF t.angular_difference_col_name # Unset THEN t.angular_difference_col_name
    ELSE ANGULAR_DIFFERENCE_COL_NAME

get_timedelta_column_name(t) ==
    IF t.timedelta_col_name # Unset THEN t.timedelta_col_name ELSE TIMEDELTA_COL_NAME

size(t) == NRows(t.df)

----------------------------------------------------------------------------
(* Per-row computations.  pt0 is the cell of column prev_pt, pt1 the       *)
(* position of the row.                                                    *)

RaiseCell == <<"raise", 0, 1>>

(* DistComputed without the division by the requested unit *)
DistComputedInCrsUnits(pt0, pt1, is_latlon, conversion) ==
    LET p0 == <<pt0[2], pt0[3]>>
        m  == IF is_latlon THEN measure_distance_geodesic(p0, pt1)
              ELSE measure_distance_euclidean(p0, pt1)
    IN  FMul(m, F(conversion.crs, 1))

DistComputed(pt0, pt1, is_latlon, conversion) ==
    LET p0 == <<pt0[2], pt0[3]>>
        m  == IF is_latlon THEN measure_distance_geodesic(p0, pt1)
              ELSE measure_distance_euclidean(p0, pt1)
    IN  FDiv(FMul(m, F(conversion.crs, 1)), F(conversion.distance, 1))

compute_distance(pt0, pt1, is_latlon, conversion) ==
    IF ~IsPointCell(pt0) THEN Zero
    ELSE IF pt0 = PtCell(pt1) THEN Zero
    ELSE DistComputed(pt0, pt1, is_latlon, conversion)

compute_heading(pt0, pt1, is_latlon) ==
    IF ~IsPointCell(pt0) THEN Zero
    ELSE IF pt0 = PtCell(pt1) THEN Zero
    ELSE IF is_latlon THEN calculate_initial_compass_bearing(<<pt0[2], pt0[3]>>, pt1)
    ELSE azimuth(<<pt0[2], pt0[3]>>, pt1)

compute_angular_difference(degrees1, degrees2) ==
    IF IsFloat(degrees1) /\ degrees1 = degrees2 THEN Zero
    ELSE angular_difference(degrees1, degrees2)

(* compute_speed with a step of no elapsed time given the speed 0 *)
compute_speed_zero_without_time(pt0, pt1, delta_t, is_latlon, conversion) ==
    IF ~IsPointCell(pt0) THEN Zero
    ELSE IF pt0 = PtCell(pt1) THEN Zero
    ELSE IF delta_t[2] = 0 THEN Zero
    ELSE FMul(FDiv(DistComputed(pt0, pt1, is_latlon, conversion), F(delta_t[2], 1)),
              F(conversion.time, 1))

(* delta_t is the cell of column delta_t; dividing by a zero number of     *)
(* seconds raises                                                          *)
compute_speed(pt0, pt1, delta_t, is_latlon, conversion) ==
    IF ~IsPointCell(pt0) THEN Zero
    ELSE IF pt0 = PtCell(pt1) THEN Zero
    ELSE IF delta_t[2] = 0 THEN RaiseCell
    ELSE FMul(FDiv(DistComputed(pt0, pt1, is_latlon, conversion), F(delta_t[2], 1)),
              F(conversion.time, 1))

----------------------------------------------------------------------------
(* The derivations.  Each returns [ok, df] (the _get_df_with_* helpers) or *)
(* [traj, result] (the add_* methods): the trajectory the call leaves      *)
(* behind and "ok" or the error it raised.                                 *)

(* PrevPt with the geometry shifted by two rows instead of one *)
PrevPtShiftedTwice(df) == Shift(Shift(GeomCells(df), NoneCell), NoneCell)

PrevPt(df) == Shift(GeomCells(df), NoneCell)

Rows(df) == 1..NRows(df)

(* get_df_with_timedelta with a zero duration in the first row *)
get_df_with_timedelta_zero_first(df, name) ==
    Assign(df, name,
           [i \in Rows(df) |-> IF i = 1 THEN Td(0) ELSE Td(df.index[i] - df.index[i - 1])])

get_df_with_timedelta(df, name) ==
    Assign(df, name,
           [i \in Rows(df) |-> IF i = 1 THEN NaT ELSE Td(df.index[i] - df.index[i - 1])])

get_df_with_distance(t, conversion, name) ==
    LET temp1 == Assign(t.df, "prev_pt", PrevPt(t.df))
        prev  == ColVals(temp1, "prev_pt")
        temp2 == Assign(temp1, name,
                        [i \in Rows(temp1) |->
                           compute_distance(prev[i], temp1.geometry[i], t.is_latlon,
                                            conversion)])
        (* set the distance in the first row to zero *)
        temp3 == SetFirst(temp2, name, Zero)
    IN  Drop(temp3, {"prev_pt"})

(* get_df_with_speed without the copy of the second row into the first *)
get_df_with_speed_first_row_kept(t, conversion, name) ==
    LET temp1 == get_df_with_timedelta(t.df, "delta_t")
        temp2 == Assign(temp1, "prev_pt", PrevPt(temp1))
        prev  == ColVals(temp2, "prev_pt")
        dt    == ColVals(temp2, "delta_t")
        speed == [i \in Rows(temp2) |->
                    compute_speed(prev[i], temp2.geometry[i], dt[i], t.is_latlon,
                                  conversion)]
        temp3 == Assign(temp2, name, speed)
    IN  IF NRows(temp3) < 2
        THEN [ok |-> FALSE, error |-> "IndexError", df |-> t.df]
        ELSE [ok |-> TRUE, error |-> "ok", df |-> Drop(temp3, {"prev_pt", "delta_t"})]

get_df_with_speed(t, conversion, name) ==
    LET temp1 == get_df_with_timedelta(t.df, "delta_t")
        temp2 == Assign(temp1, "prev_pt", PrevPt(temp1))
        prev  == ColVals(temp2, "prev_pt")
        dt    == ColVals(temp2, "delta_t")
        speed == [i \in Rows(temp2) |->
                    compute_speed(prev[i], temp2.geometry[i], dt[i], t.is_latlon,
                                  conversion)]
        temp3 == Assign(temp2, name, speed)
    IN  IF \E i \in Rows(temp2) : speed[i] = RaiseCell
        THEN [ok |-> FALSE, error |-> "ZeroDivisionError", df |-> t.df]
        ELSE IF NRows(temp3) < 2
        THEN [ok |-> FALSE, error |-> "IndexError", df |-> t.df]
        (* set the speed in the first row to the speed of the second row *)
        ELSE [ok |-> TRUE, error |-> "ok",
              df |-> Drop(SetFirst(temp3, name, ColVals(temp3, name)[2]),
                          {"prev_pt", "delta_t"})]

(* get_df_with_acceleration with the speed difference not divided by the   *)
(* elapsed seconds                                                         *)
get_df_with_acceleration_undivided(t, conversion, name) ==
    LET r == get_df_with_speed(t, conversion, "speed_temp")
        temp1 == r.df
        sp == ColVals(temp1, "speed_temp")
        acc == [i \in Rows(temp1) |->
                  IF i = 1 THEN NaN
                  ELSE FMul(FSub(sp[i], sp[i - 1]), F(conversion.time2, 1))]
        temp2 == Assign(temp1, name, acc)
    IN  IF ~r.ok THEN r
        ELSE [ok |-> TRUE, error |-> "ok",
              df |-> Drop(SetFirst(temp2, name, ColVals(temp2, name)[2]),
                          {"speed_temp"})]

(* get_df_with_acceleration without the copy of the second row into the   *)
(* first                                                                   *)
get_df_with_acceleration_first_row_kept(t, conversion, name) ==
    LET r == get_df_with_speed(t, conversion, "speed_temp")
        temp1 == r.df
        sp == ColVals(temp1, "speed_temp")
        acc == [i \in Rows(temp1) |->
                  IF i = 1 THEN NaN
                  ELSE FMul(FDiv(FSub(sp[i], sp[i - 1]),
                                 F(temp1.index[i] - temp1.index[i - 1], 1)),
                            F(conversion.time2, 1))]
        temp2 == Assign(temp1, name, acc)
    IN  IF ~r.ok THEN r
        ELSE [ok |-> TRUE, error |-> "ok", df |-> Drop(temp2, {"speed_temp"})]

get_df_with_acceleration(t, conversion, name) ==
    LET r == get_df_with_speed(t, conversion, "speed_temp")
        temp1 == r.df
        sp == ColVals(temp1, "speed_temp")
        acc == [i \in Rows(temp1) |->
                  IF i = 1 THEN NaN
                  ELSE FMul(FDiv(FSub(sp[i], sp[i - 1]),
                                 F(temp1.index[i] - temp1.index[i - 1], 1)),
                            F(conversion.time2, 1))]
        temp2 == Assign(temp1, name, acc)
    IN  IF ~r.ok THEN r
        (* set the acceleration in the first row to that of the second row *)
        ELSE [ok |-> TRUE, error |-> "ok",
              df |-> Drop(SetFirst(temp2, name, ColVals(temp2, name)[2]),
                          {"speed_temp"})]

Raised(t, error) == [traj |-> t, result |-> error]

Returned(t) == [traj |-> t, result |-> "ok"]

add_traj_id(t, overwrite) ==
    IF HasCol(t.df, TRAJ_ID_COL_NAME) /\ ~overwrite THEN Raised(t, "RuntimeError")
    ELSE Returned([t EXCEPT !.df = Assign(@, TRAJ_ID_COL_NAME,
                                          [i \in Rows(t.df) |-> IdCell(t.id)])])

add_direction(t, overwrite, name) ==
    LET t1 == [t EXCEPT !.direction_col_name = name]
        df1 == Assign(t1.df, "prev_pt", PrevPt(t1.df))
        prev == ColVals(df1, "prev_pt")
        df2 == Assign(df1, name,
                      [i \in Rows(df1) |->
                         compute_heading(prev[i], df1.geometry[i], t.is_latlon)])
    IN  IF HasCol(t1.df, name) /\ ~overwrite THEN Raised(t1, "RuntimeError")
        (* self.df.iloc[1] on a table of one row *)
        ELSE IF NRows(df2) < 2 THEN Raised([t1 EXCEPT !.df = df2], "IndexError")
        ELSE Returned([t1 EXCEPT
                         !.df = Drop(SetFirst(df2, name, ColVals(df2, name)[2]),
                                     {"prev_pt"})])

add_angular_difference(t, overwrite, name) ==
    LET t1 == [t EXCEPT !.angular_difference_col_name = name]
        direction_column_name == get_direction_column_name(t1)
        direction_exists == HasCol(t1.df, direction_column_name)
        d == add_direction(t1, FALSE, DIRECTION_COL_NAME)
        t2 == IF direction_exists THEN t1 ELSE d.traj
        temp_df == t2.df
        prev_name == "prev_" \o direction_column_name
        temp2 == Assign(temp_df, prev_name,
                        Shift(ColVals(temp_df, direction_column_name), NaN))
        d1 == ColVals(temp2, "prev_direction")
        d2 == ColVals(temp2, "direction")
        df3 == Assign(t2.df, name,
                      [i \in Rows(temp2) |-> compute_angular_difference(d1[i], d2[i])])
        (* set the first row to be 0 *)
        df4 == SetFirst(df3, name, Zero)
    IN  IF HasCol(t1.df, name) /\ ~overwrite THEN Raised(t1, "RuntimeError")
        ELSE IF ~direction_exists /\ d.result # "ok" THEN d
        ELSE IF ~HasCol(temp_df, direction_column_name) THEN Raised(t2, "KeyError")
        ELSE IF ~(HasCol(temp2, "prev_direction") /\ HasCol(temp2, "direction"))
        THEN Raised(t2, "KeyError")
        ELSE Returned([t2 EXCEPT
                         !.df = IF direction_exists THEN df4
                                ELSE Drop(df4, {DIRECTION_COL_NAME})])

add_distance(t, overwrite, name, units) ==
    LET t1 == [t EXCEPT !.distance_col_name = name]
        conversion == get_conversion(units, t.crs_units)
    IN  IF HasCol(t1.df, name) /\ ~overwrite THEN Raised(t1, "RuntimeError")
        ELSE IF ~conversion.ok THEN Raised(t1, "UnitError")
        ELSE Returned([t1 EXCEPT !.df = get_df_with_distance(t1, conversion, name)])

add_speed(t, overwrite, name, units) ==
    LET t1 == [t EXCEPT !.speed_col_name = name]
        conversion == get_conversion(units, t.crs_units)
        r == get_df_with_speed(t1, conversion, name)
    IN  IF HasCol(t1.df, name) /\ ~overwrite THEN Raised(t1, "RuntimeError")
        ELSE IF ~conversion.ok THEN Raised(t1, "UnitError")
        ELSE IF ~r.ok THEN Raised(t1, r.error)
        ELSE Returned([t1 EXCEPT !.df = r.df])

add_acceleration(t, overwrite, name, units) ==
    LET t1 == [t EXCEPT !.acceleration_col_name = name]
        conversion == get_conversion(units, t.crs_units)
        r == get_df_with_acceleration(t1, conversion, name)
    IN  IF HasCol(t1.df, name) /\ ~overwrite THEN Raised(t1, "RuntimeError")
        ELSE IF ~conversion.ok THEN Raised(t1, "UnitError")
        ELSE IF ~r.ok THEN Raised(t1, r.error)
        ELSE Returned([t1 EXCEPT !.df = r.df])

add_timedelta(t, overwrite, name) ==
    LET t1 == [t EXCEPT !.timedelta_col_name = name]
    IN  IF HasCol(t1.df, name) /\ ~overwrite THEN Raised(t1, "RuntimeError")
        ELSE Returned([t1 EXCEPT !.df = get_df_with_timedelta(t1.df, name)])

----------------------------------------------------------------------------
(* The calls the model makes *)

(* a name the caller may pass instead of an operation's default name *)
AltNames == {"delta_t"}

NamesFor(default) == {default} \cup AltNames

UnitChoices ==
    {UNITS(None, None, None), UNITS("km", "h", "min"), UNITS("parsec", None, None)}

Init ==
    /\ pc = "ready"
    /\ input = NoInput
    /\ \E in \in Inputs : \E o \in InitOutcomes(in) : o.ok /\ traj = o.traj
    /\ last = NoCall
    /\ ncalls = 0
    /\ other = NoTraj
    /\ same_df = FALSE
    /\ out = NoOut

Call(op, name, overwrite, units, r) ==
    /\ traj' = r.traj
    /\ last' = CallOf(op, name, overwrite, units, r.result)
    /\ ncalls' = ncalls + 1
    /\ UNCHANGED <<pc, input, other, same_df, out>>

CanCall == pc = "ready" /\ ncalls < MaxCalls

AddTrajId ==
    /\ CanCall
    /\ \E ow \in BOOLEAN :
         Call("add_traj_id", TRAJ_ID_COL_NAME, ow, NoUnits, add_traj_id(traj, ow))

AddDirection ==
    /\ CanCall
    /\ \E ow \in BOOLEAN, n \in NamesFor(DIRECTION_COL_NAME) :
         Call("add_direction", n, ow, NoUnits, add_direction(traj, ow, n))

AddAngularDifference ==
    /\ CanCall
    /\ \E ow \in BOOLEAN, n \in NamesFor(ANGULAR_DIFFERENCE_COL_NAME) :
         Call("add_angular_difference", n, ow, NoUnits, add_angular_difference(traj, ow, n))

AddDistance ==
    /\ CanCall
    /\ \E ow \in BOOLEAN, n \in NamesFor(DISTANCE_COL_NAME), u \in UnitChoices :
         Call("add_distance", n, ow, u, add_distance(traj, ow, n, u))

AddSpeed ==
    /\ CanCall
    /\ \E ow \in BOOLEAN, n \in NamesFor(SPEED_COL_NAME), u \in UnitChoices :
         Call("add_speed", n, ow, u, add_speed(traj, ow, n, u))

AddAcceleration ==
    /\ CanCall
    /\ \E ow \in BOOLEAN, n \in NamesFor(ACCELERATION_COL_NAME), u \in UnitChoices :
         Call("add_acceleration", n, ow, u, add_acceleration(traj, ow, n, u))

AddTimedelta ==
    /\ CanCall
    /\ \E ow \in BOOLEAN, n \in NamesFor(TIMEDELTA_COL_NAME) :
         Call("add_timedelta", n, ow, NoUnits, add_timedelta(traj, ow, n))

Next ==
    \/ AddTrajId
    \/ AddDirection
    \/ AddAngularDifference
    \/ AddDistance
    \/ AddSpeed
    \/ AddAcceleration
    \/ AddTimedelta

Spec == Init /\ [][Next]_vars

----------------------------------------------------------------------------
(* Construction: order, duplicates, minimum size *)

Timestamps(rows) == {rows[i].t : i \in 1..Len(rows)}

FirstOccurrence(rows, t) ==
    CHOOSE i \in 1..Len(rows) : rows[i].t = t /\ \A j \in 1..(i - 1) : rows[j].t # t

StrictlyIncreasing(index) ==
    \A i \in 1..(Len(index) - 1) : index[i] < index[i + 1]

(* C1: after a successful construction the stored rows are in strictly     *)
(* increasing timestamp order, every timestamp of the input is kept once,  *)
(* and the row kept for a timestamp is its first occurrence in the input.  *)
C1_FirstOccurrenceKept ==
    pc = "ready" =>
      /\ StrictlyIncreasing(traj.df.index)
      /\ Range(traj.df.index) = Timestamps(input.rows)
      /\ \A i \in Rows(traj.df) :
           traj.df.geometry[i] =
             input.rows[FirstOccurrence(input.rows, traj.df.index[i])].pt

(* C2: a trajectory that construction returns holds at least 2 samples; an *)
(* input that leaves fewer than 2 samples is rejected.                     *)
C2_AtLeastTwoSamples ==
    /\ pc = "ready" => size(traj) >= 2
    /\ (pc # "new" /\ Cardinality(Timestamps(input.rows)) < 2) => pc = "error"

----------------------------------------------------------------------------
(* The add_<metric> calls: guard, failure, frame *)

MetricOps ==
    {"add_timedelta", "add_distance", "add_speed", "add_acceleration",
     "add_direction", "add_angular_difference"}

AddOps == MetricOps \cup {"add_traj_id"}

KnownUnits(u) == get_conversion(u, None).ok

(* what a caller can observe of a trajectory's derived state *)
Observable(t) ==
    <<t.df, get_speed_column_name(t), get_distance_column_name(t),
      get_direction_column_name(t), get_angular_difference_column_name(t),
      get_timedelta_column_name(t)>>

(* C3: on a trajectory of at least 2 samples, a call of an add_* method     *)
(* whose target column is already present raises and leaves the table as   *)
(* it was when overwrite is false, and succeeds when overwrite is true.    *)
C3_OverwriteGuard ==
    [][(last'.op \in AddOps /\ size(traj) >= 2 /\ KnownUnits(last'.units)
          /\ HasCol(traj.df, last'.name)) =>
         IF last'.overwrite THEN last'.result = "ok"
         ELSE last'.result = "RuntimeError" /\ traj'.df = traj.df]_vars

(* C4: on a trajectory of at least 2 samples, a failed add_<metric> call   *)
(* leaves the table and the column names the getters report as they were   *)
(* before the call.                                                        *)
C4_NoPartialFailure ==
    [][(last'.op \in MetricOps /\ size(traj) >= 2 /\ last'.result # "ok") =>
         Observable(traj') = Observable(traj)]_vars

(* C5: on a trajectory of at least 2 samples, a successful add_* call with *)
(* name n leaves the samples and every column other than n (name, place    *)
(* and values) as they were.                                               *)
C5_FrameOfAdd ==
    [][(last'.op \in AddOps /\ size(traj) >= 2 /\ last'.result = "ok") =>
         /\ traj'.df.index = traj.df.index
         /\ traj'.df.geometry = traj.df.geometry
         /\ SelectCols(traj'.df.columns, {last'.name})
              = SelectCols(traj.df.columns, {last'.name})]_vars

CellKindsOf(op) ==
    IF op = "add_timedelta" THEN {"timedelta", "nat"} ELSE {"float"}

(* C6: after a successful add_<metric>(name=n) on a trajectory of at least *)
(* 2 samples the table has a column n with a cell of the metric for every  *)
(* sample.                                                                 *)
C6_ColumnPresent ==
    (last.op \in MetricOps /\ size(traj) >= 2 /\ last.result = "ok") =>
      /\ HasCol(traj.df, last.name)
      /\ Len(ColVals(traj.df, last.name)) = size(traj)
      /\ \A i \in Rows(traj.df) :
           ColVals(traj.df, last.name)[i][1] \in CellKindsOf(last.op)

----------------------------------------------------------------------------
(* The values the derivations store *)

(* the last call returned and its column is in the table *)
Stored(ops) == last.op \in ops /\ last.result = "ok" /\ HasCol(traj.df, last.name)

LastVals == ColVals(traj.df, last.name)

SamePosition(i) == traj.df.geometry[i] = traj.df.geometry[i - 1]

(* C7: on a trajectory of at least 2 samples, add_distance stores exactly  *)
(* 0 in the first row; add_speed, add_direction and add_acceleration store *)
(* in the first row the value of the second row.                           *)
C7_FirstRowPolicy ==
    /\ (Stored({"add_distance"}) /\ size(traj) >= 2) => LastVals[1] = Zero
    /\ (Stored({"add_speed", "add_direction", "add_acceleration"}) /\ size(traj) >= 2)
         => LastVals[1] = LastVals[2]

C7_Witness ==
    /\ Stored({"add_speed"})
    /\ size(traj) >= 3
    /\ LastVals[2] # Zero
    /\ LastVals[3] # LastVals[2]
    /\ LastVals[1] = LastVals[2]

(* C8 as stated: after add_timedelta, row i >= 2 holds timestamp[i] minus  *)
(* timestamp[i-1] and row 1 holds a zero duration.                         *)
C8_FirstRowZeroDuration ==
    Stored({"add_timedelta"}) =>
      /\ \A i \in 2..size(traj) :
           LastVals[i] = Td(traj.df.index[i] - traj.df.index[i - 1])
      /\ LastVals[1] = Td(0)

(* C8 amended: after add_timedelta, row i >= 2 holds timestamp[i] minus    *)
(* timestamp[i-1] and row 1 holds the missing value NaT.                   *)
C8_FirstRowNaT ==
    Stored({"add_timedelta"}) =>
      /\ \A i \in 2..size(traj) :
           LastVals[i] = Td(traj.df.index[i] - traj.df.index[i - 1])
      /\ LastVals[1] = NaT

C8_Witness ==
    /\ Stored({"add_timedelta"})
    /\ size(traj) >= 3
    /\ LastVals[2] # LastVals[3]
    /\ LastVals[1] = NaT

HasDegenerateStep == \E i \in 2..size(traj) : SamePosition(i)

(* C9: add_distance, add_speed and add_direction store exactly 0 in every  *)
(* row i >= 2 whose position equals that of row i-1, for every elapsed     *)
(* time, CRS regime and known units, and such a step raises no error.      *)
C9_DegenerateStep ==
    /\ Stored({"add_distance", "add_speed", "add_direction"}) =>
         \A i \in 2..size(traj) : SamePosition(i) => LastVals[i] = Zero
    /\ ( /\ last.op \in {"add_distance", "add_speed", "add_direction"}
         /\ last.overwrite
         /\ KnownUnits(last.units)
         /\ size(traj) >= 2
         /\ HasDegenerateStep ) => last.result = "ok"

C9_Witness ==
    /\ Stored({"add_speed"})
    /\ traj.is_latlon
    /\ last.units = UNITS("km", "h", "min")
    /\ size(traj) >= 3
    /\ SamePosition(3)
    /\ ~SamePosition(2)
    /\ traj.df.index[3] - traj.df.index[2] > 1
    /\ LastVals[3] = Zero
    /\ LastVals[2] # Zero

(* C10 as stated: add_acceleration stores exactly 0 in every row i >= 2    *)
(* whose position equals that of row i-1.                                  *)
C10_DegenerateAccelerationZero ==
    Stored({"add_acceleration"}) =>
      \A i \in 2..size(traj) : SamePosition(i) => LastVals[i] = Zero

(* the speed add_speed stores for row i under the units of the last call   *)
SpeedOfRow(i) ==
    ColVals(get_df_with_speed(traj, get_conversion(last.units, traj.crs_units),
                              "speed_temp").df, "speed_temp")[i]

(* C10 amended: in a row i >= 2 whose position equals that of row i-1,     *)
(* add_acceleration stores minus the speed of row i-1 divided by the       *)
(* seconds elapsed between the two rows, times the time2 factor; that is 0 *)
(* exactly when the speed of row i-1 is 0, as it always is for i = 2.      *)
C10_DegenerateAccelerationIsSpeedLoss ==
    Stored({"add_acceleration"}) =>
      \A i \in 2..size(traj) : SamePosition(i) =>
        /\ LastVals[i] =
             FMul(FDiv(FSub(Zero, SpeedOfRow(i - 1)),
                       F(traj.df.index[i] - traj.df.index[i - 1], 1)),
                  F(TimeFactor(IF last.units.time2 = None THEN "s"
                               ELSE last.units.time2), 1))
        /\ (LastVals[i] = Zero) <=> (SpeedOfRow(i - 1) = Zero)
        /\ i = 2 => LastVals[i] = Zero

C10_Witness ==
    /\ Stored({"add_acceleration"})
    /\ size(traj) >= 3
    /\ SamePosition(3)
    /\ ~SamePosition(2)
    /\ traj.df.index[3] - traj.df.index[2] > 1
    /\ last.units = UNITS("km", "h", "min")
    /\ LastVals[3] # Zero

----------------------------------------------------------------------------
(* The speed computation on a table whose index repeats a timestamp.  A    *)
(* constructed trajectory holds every timestamp once; Trajectory.df is a   *)
(* public attribute, and the speed computation is a function of the table  *)
(* it finds there.                                                         *)

SortedTables(n) == {r \in Tables(n) : IsMonotonicIncreasing(r)}

InitSpeed ==
    /\ pc = "table"
    /\ input = NoInput
    /\ \E n \in 2..MaxRows : \E r \in SortedTables(n), c \in CrsChoices :
         traj = NewTrajectory(r, 1, NoId, c, None)
    /\ last = NoCall
    /\ ncalls = 0
    /\ other = NoTraj
    /\ same_df = FALSE
    /\ out = NoOut

SpeedOfTable ==
    /\ pc = "table"
    /\ \E u \in UnitChoices :
         LET r == add_speed(traj, FALSE, SPEED_COL_NAME, u)
         IN  /\ traj' = r.traj
             /\ last' = CallOf("add_speed", SPEED_COL_NAME, FALSE, u, r.result)
    /\ pc' = "done"
    /\ ncalls' = ncalls + 1
    /\ UNCHANGED <<input, other, same_df, out>>

NextSpeed == SpeedOfTable

SpecSpeed == InitSpeed /\ [][NextSpeed]_vars

(* a step of no elapsed time between two different positions *)
ZeroTimeStep(i) ==
    /\ traj.df.index[i] = traj.df.index[i - 1]
    /\ traj.df.geometry[i] # traj.df.geometry[i - 1]

(* C11: when a step of the table has nonzero distance and zero elapsed     *)
(* time, add_speed raises the division-by-zero error and stores no speed   *)
(* column: no NaN, infinity or 0 is stored for the step.                   *)
C11_ZeroTimeRaises ==
    (pc = "done" /\ KnownUnits(last.units) /\ \E i \in 2..size(traj) : ZeroTimeStep(i))
      => /\ last.result = "ZeroDivisionError"
         /\ ~HasCol(traj.df, last.name)

C11_Witness ==
    /\ pc = "done"
    /\ size(traj) = 3
    /\ ~ZeroTimeStep(2)
    /\ traj.df.index[2] > traj.df.index[1]
    /\ ZeroTimeStep(3)
    /\ last.units = UNITS("km", "h", "min")
    /\ last.result = "ZeroDivisionError"

----------------------------------------------------------------------------
(* add_distance in metres and in kilometres on the same samples *)

DistanceNames == [m |-> "distance (m)", km |-> "distance (km)"]

AddDistanceIn(u) ==
    /\ CanCall
    /\ Call("add_distance", DistanceNames[u], FALSE, UNITS(u, None, None),
            add_distance(traj, FALSE, DistanceNames[u], UNITS(u, None, None)))

AddDistanceM == AddDistanceIn("m")

AddDistanceKm == AddDistanceIn("km")

NextUnits == AddDistanceM \/ AddDistanceKm

SpecUnits == Init /\ [][NextUnits]_vars

(* C12: when add_distance has stored the distances in metres under one     *)
(* name and in kilometres under another, every row's value in kilometres   *)
(* is its value in metres divided by 1000.                                 *)
C12_KmIsMetresBy1000 ==
    (HasCol(traj.df, DistanceNames.m) /\ HasCol(traj.df, DistanceNames.km)) =>
      \A i \in Rows(traj.df) :
        ColVals(traj.df, DistanceNames.km)[i]
          = FDiv(ColVals(traj.df, DistanceNames.m)[i], F(1000, 1))

C12_Witness ==
    /\ HasCol(traj.df, DistanceNames.m)
    /\ HasCol(traj.df, DistanceNames.km)
    /\ size(traj) = 3
    /\ ~traj.is_latlon
    /\ ColVals(traj.df, DistanceNames.m)[2] = F(3, 1)
    /\ ColVals(traj.df, DistanceNames.km)[2] = F(3, 1000)
    /\ ColVals(traj.df, DistanceNames.km)[3] = Zero

----------------------------------------------------------------------------
(* Trajectory.__init__ on the table of an existing trajectory (copy,       *)
(* get_segment_between).  A reference to a trajectory object is the name   *)
(* of the variable that holds it.                                          *)

TrajRef == "traj"

OtherRef == "other"

DfRows(df) ==
    [i \in 1..NRows(df) |->
       [t |-> df.index[i], pt |-> df.geometry[i],
        cells |-> [c \in 1..Len(df.columns) |-> df.columns[c].vals[i]]]]

DfOfRows(rows, df) ==
    [index    |-> [i \in 1..Len(rows) |-> rows[i].t],
     geometry |-> [i \in 1..Len(rows) |-> rows[i].pt],
     columns  |-> [c \in 1..Len(df.columns) |->
                     [name |-> df.columns[c].name,
                      vals |-> [i \in 1..Len(rows) |-> rows[i].cells[c]]]]]

(* Trajectory(df, traj_id, parent=parent) for a GeoDataFrame df of the     *)
(* given crs: records [ok, traj]                                           *)
InitFromDf(df, crs, traj_id, parent) ==
    IF NRows(df) < 2 THEN {[ok |-> FALSE, traj |-> NoTraj]}
    ELSE {[ok |-> TRUE,
           traj |-> [NewTrajectory(<<>>, traj_id, NoId, crs, parent)
                       EXCEPT !.df = DfOfRows(DropDuplicated(rs), df)]]
          : rs \in SortIndex(DfRows(df))}

----------------------------------------------------------------------------
(* Queries by time *)

SetMin(S) == CHOOSE x \in S : \A y \in S : x <= y

SetMax(S) == CHOOSE x \in S : \A y \in S : x >= y

get_start_time(t) == SetMin(Range(t.df.index))

get_end_time(t) == SetMax(Range(t.df.index))

(* is_valid accepting a single sample *)
is_valid_single_sample(t) ==
    IF NRows(t.df) < 1 THEN FALSE
    ELSE IF ~(get_start_time(t) <= get_end_time(t)) THEN FALSE
    ELSE TRUE

is_valid(t) ==
    IF NRows(t.df) < 2 THEN FALSE
    ELSE IF ~(get_start_time(t) < get_end_time(t)) THEN FALSE
    ELSE TRUE

(* index.get_indexer([t], method)[0] on a sorted index without duplicates: *)
(* a position counted from 0, or -1 when no label qualifies                *)
IndexerMethods == {"nearest", "ffill", "bfill"}

get_indexer(index, t, method) ==
    LET n == Len(index)
        le == {i \in 1..n : index[i] <= t}
        ge == {i \in 1..n : index[i] >= t}
        left == IF le = {} THEN -1 ELSE SetMax(le) - 1
        right == IF ge = {} THEN -1 ELSE SetMin(ge) - 1
        at(i) == IF i < 0 THEN index[n + 1 + i] ELSE index[i + 1]
        left_distance == Abs(t - at(left))
        right_distance == Abs(t - at(right))
    IN  IF method = "ffill" THEN left
        ELSE IF method = "bfill" THEN right
        ELSE IF left_distance < right_distance \/ right = -1 THEN left
        ELSE right

(* df.iloc[idx]: the row number, counted from 1; negative idx counts from  *)
(* the end                                                                 *)
iloc(df, idx) == IF idx < 0 THEN NRows(df) + 1 + idx ELSE idx + 1

(* get_row_at(time, method): [ok, error, row], row the number of the row   *)
(* returned                                                                *)
get_row_at(t, time, method) ==
    IF \E i \in Rows(t.df) : t.df.index[i] = time
    THEN [ok |-> TRUE, error |-> "ok",
          row |-> CHOOSE i \in Rows(t.df) : t.df.index[i] = time]
    ELSE IF method \notin IndexerMethods
    THEN [ok |-> FALSE, error |-> "ValueError: invalid method", row |-> 0]
    ELSE [ok |-> TRUE, error |-> "ok",
          row |-> iloc(t.df, get_indexer(t.df.index, time, method))]

FAdd(a, b) == FSub(a, FSub(Zero, b))

(* a position with float coordinates *)
FPt(p) == <<F(p[1], 1), F(p[2], 1)>>

NoPt == <<NaN, NaN>>

(* LineString([p0, p1]).length *)
LineLength(p0, p1) ==
    ISqrt((p1[1] - p0[1]) * (p1[1] - p0[1]) + (p1[2] - p0[2]) * (p1[2] - p0[2]))

(* LineString([p0, p1]).interpolate(distance), the line of nonzero length: *)
(* the point at that distance from p0 along the line, no further than p1;  *)
(* a negative distance is taken from p1 backwards                          *)
line_interpolate(p0, p1, distance) ==
    LET len == F(LineLength(p0, p1), 1)
        from_start == IF distance[2] < 0 THEN FAdd(len, distance) ELSE distance
        d == IF from_start[2] < 0 THEN Zero
             ELSE IF FSub(from_start, len)[2] > 0 THEN len
             ELSE from_start
        fraction == FDiv(d, len)
    IN  <<FAdd(F(p0[1], 1), FMul(fraction, F(p1[1] - p0[1], 1))),
          FAdd(F(p0[2], 1), FMul(fraction, F(p1[2] - p0[2], 1)))>>

(* interpolate_position_at without the return for a zero-length line *)
interpolate_position_at_unguarded(t, time) ==
    LET prev_row == get_row_at(t, time, "ffill").row
        next_row == get_row_at(t, time, "bfill").row
        t_diff == t.df.index[next_row] - t.df.index[prev_row]
        t_diff_at == time - t.df.index[prev_row]
        p0 == t.df.geometry[prev_row]
        p1 == t.df.geometry[next_row]
    IN  line_interpolate(p0, p1,
                         FMul(FDiv(F(t_diff_at, 1), F(t_diff, 1)),
                              F(LineLength(p0, p1), 1)))

(* interpolate_position_at measuring the elapsed time from the next row *)
interpolate_position_at_from_next(t, time) ==
    LET prev_row == get_row_at(t, time, "ffill").row
        next_row == get_row_at(t, time, "bfill").row
        t_diff == t.df.index[next_row] - t.df.index[prev_row]
        t_diff_at == t.df.index[next_row] - time
        p0 == t.df.geometry[prev_row]
        p1 == t.df.geometry[next_row]
    IN  IF t_diff = 0 \/ LineLength(p0, p1) = 0 THEN FPt(p0)
        ELSE line_interpolate(p0, p1,
                              FMul(FDiv(F(t_diff_at, 1), F(t_diff, 1)),
                                   F(LineLength(p0, p1), 1)))

interpolate_position_at(t, time) ==
    LET prev_row == get_row_at(t, time, "ffill").row
        next_row == get_row_at(t, time, "bfill").row
        t_diff == t.df.index[next_row] - t.df.index[prev_row]
        t_diff_at == time - t.df.index[prev_row]
        p0 == t.df.geometry[prev_row]
        p1 == t.df.geometry[next_row]
    IN  IF t_diff = 0 \/ LineLength(p0, p1) = 0 THEN FPt(p0)
        ELSE line_interpolate(p0, p1,
                              FMul(FDiv(F(t_diff_at, 1), F(t_diff, 1)),
                                   F(LineLength(p0, p1), 1)))

PositionMethods == {"nearest", "interpolated", "ffill", "bfill"}

(* get_position_at without the check of the time range *)
get_position_at_unchecked_range(t, time, method) ==
    IF method \notin PositionMethods
    THEN [ok |-> FALSE, error |-> "ValueError: invalid method", pt |-> NoPt]
    ELSE IF method = "interpolated"
    THEN [ok |-> TRUE, error |-> "ok", pt |-> interpolate_position_at(t, time)]
    ELSE [ok |-> TRUE, error |-> "ok",
          pt |-> FPt(t.df.geometry[get_row_at(t, time, method).row])]

(* get_position_at(time, method): [ok, error, pt] *)
get_position_at(t, time, method) ==
    IF time < get_start_time(t) \/ time > get_end_time(t)
    THEN [ok |-> FALSE, error |-> "ValueError: outside time range", pt |-> NoPt]
    ELSE IF method \notin PositionMethods
    THEN [ok |-> FALSE, error |-> "ValueError: invalid method", pt |-> NoPt]
    ELSE IF method = "interpolated"
    THEN [ok |-> TRUE, error |-> "ok", pt |-> interpolate_position_at(t, time)]
    ELSE [ok |-> TRUE, error |-> "ok",
          pt |-> FPt(t.df.geometry[get_row_at(t, time, method).row])]

(* self.df[t1:t2]: the rows whose label lies in [t1, t2] *)
SliceDf(df, t1, t2) ==
    DfOfRows(SelectSeq(DfRows(df), LAMBDA r : t1 <= r.t /\ r.t <= t2), df)

(* "{}_{}".format(self.id, t1): one id for each pair *)
SegmentId(id, t1) == id * (MaxTime + 2) + t1

(* get_segment_between with the slice open at t2 *)
get_segment_between_open_end(t, self, t1, t2) ==
    {IF ~o.ok THEN [result |-> "ValueError", traj |-> NoTraj]
     ELSE IF ~is_valid(o.traj) THEN [result |-> "RuntimeError", traj |-> NoTraj]
     ELSE [result |-> "ok", traj |-> o.traj]
       : o \in InitFromDf(SliceDf(t.df, t1, t2 - 1), t.crs, SegmentId(t.id, t1), self)}

(* get_segment_between(t1, t2) called on the trajectory `self` refers to:  *)
(* the outcomes [result, traj]                                             *)
get_segment_between(t, self, t1, t2) ==
    {IF ~o.ok THEN [result |-> "ValueError", traj |-> NoTraj]
     ELSE IF ~is_valid(o.traj) THEN [result |-> "RuntimeError", traj |-> NoTraj]
     ELSE [result |-> "ok", traj |-> o.traj]
       : o \in InitFromDf(SliceDf(t.df, t1, t2), t.crs, SegmentId(t.id, t1), self)}

(* point_gdf_to_linestring: the line through the points of the table, an   *)
(* error when there are fewer than two                                     *)
point_gdf_to_linestring(pts) ==
    IF Len(pts) > 1 THEN [ok |-> TRUE, error |-> "ok", line |-> pts]
    ELSE [ok |-> FALSE, error |-> "RuntimeError", line |-> <<>>]

SortedSeq(S) ==
    CHOOSE q \in [1..Cardinality(S) -> S] :
      \A i, j \in 1..Cardinality(S) : i < j => q[i] < q[j]

(* create_entry_and_exit_points followed by the slice [t1:t2]: the points  *)
(* of the samples in [t1, t2] with the positions p1 at t1 and p2 at t2     *)
(* inserted where no sample has that timestamp                             *)
create_entry_and_exit_points(t, p1, p2, t1, t2) ==
    LET times == {x \in Range(t.df.index) \cup {t1, t2} : t1 <= x /\ x <= t2}
        q == SortedSeq(times)
        pos(x) == IF \E i \in Rows(t.df) : t.df.index[i] = x
                  THEN FPt(t.df.geometry[CHOOSE i \in Rows(t.df) : t.df.index[i] = x])
                  ELSE IF x = t1 THEN p1 ELSE p2
    IN  [k \in 1..Cardinality(times) |-> pos(q[k])]

LinestringMethods == {"interpolated", "within"}

(* get_linestring_between(t1, t2, method): the outcomes [ok, error, line] *)
get_linestring_between(t, self, t1, t2, method) ==
    IF method \notin LinestringMethods
    THEN {[ok |-> FALSE, error |-> "ValueError: invalid method", line |-> <<>>]}
    ELSE IF method = "interpolated"
    THEN LET a == get_position_at(t, t1, "interpolated")
             b == get_position_at(t, t2, "interpolated")
         IN  IF ~a.ok THEN {[ok |-> FALSE, error |-> a.error, line |-> <<>>]}
             ELSE IF ~b.ok THEN {[ok |-> FALSE, error |-> b.error, line |-> <<>>]}
             ELSE {point_gdf_to_linestring(
                     create_entry_and_exit_points(t, a.pt, b.pt, t1, t2))}
    ELSE {IF seg.result = "RuntimeError"
          THEN [ok |-> FALSE, error |-> "RuntimeError", line |-> <<>>]
          ELSE IF seg.result # "ok"
          THEN [ok |-> FALSE, error |-> seg.result, line |-> <<>>]
          ELSE point_gdf_to_linestring(
                 [i \in Rows(seg.traj.df) |-> FPt(seg.traj.df.geometry[i])])
            : seg \in get_segment_between(t, self, t1, t2)}

----------------------------------------------------------------------------
(* The queries the model makes on a constructed trajectory *)

QueryTimes == 0..(MaxTime + 1)

OutOf(on, t1, t2, method, kind, row, pt, line) ==
    [on |-> on, t1 |-> t1, t2 |-> t2, method |-> method, kind |-> kind,
     row |-> row, pt |-> pt, line |-> line, val |-> NaN]

(* a query leaves the trajectory as it is: one query from each trajectory *)
CanQuery == pc = "ready" /\ last = NoCall

Query(op, result, o, child) ==
    /\ last' = CallOf(op, None, FALSE, NoUnits, result)
    /\ out' = o
    /\ other' = child
    /\ same_df' = FALSE
    /\ UNCHANGED <<pc, input, traj, ncalls>>

GetRowAt ==
    /\ CanQuery
    /\ \E time \in QueryTimes, method \in IndexerMethods \cup {"linear"} :
      LET r == get_row_at(traj, time, method)
      IN  Query("get_row_at", r.error,
                OutOf(TrajRef, time, time, method, IF r.ok THEN "row" ELSE "error",
                      r.row, NoPt, <<>>),
                NoTraj)

GetPositionAt ==
    /\ CanQuery
    /\ \E time \in QueryTimes, method \in PositionMethods \cup {"linear"} :
      LET r == get_position_at(traj, time, method)
      IN  Query("get_position_at", r.error,
                OutOf(TrajRef, time, time, method, IF r.ok THEN "point" ELSE "error",
                      0, r.pt, <<>>),
                NoTraj)

GetSegmentBetween ==
    /\ CanQuery
    /\ \E t1, t2 \in QueryTimes :
      \E r \in get_segment_between(traj, TrajRef, t1, t2) :
        Query("get_segment_between", r.result,
              OutOf(TrajRef, t1, t2, None, IF r.result = "ok" THEN "traj" ELSE "error",
                    0, NoPt, <<>>),
              r.traj)

GetLinestringBetween ==
    /\ CanQuery
    /\ \E t1, t2 \in QueryTimes, method \in LinestringMethods \cup {"linear"} :
      \E r \in get_linestring_between(traj, TrajRef, t1, t2, method) :
        Query("get_linestring_between", r.error,
              OutOf(TrajRef, t1, t2, method, IF r.ok THEN "line" ELSE "error",
                    0, NoPt, r.line),
              NoTraj)

BoolCell(b) == <<"bool", IF b THEN 1 ELSE 0, 1>>

IntCell(n) == <<"int", n, 1>>

(* a query without arguments that returns the value v *)
ValueOf(kind, v) == [NoOut EXCEPT !.kind = kind, !.val = v]

Size ==
    /\ CanQuery
    /\ Query("size", "ok", ValueOf("int", IntCell(size(traj))), NoTraj)

GetStartTime ==
    /\ CanQuery
    /\ Query("get_start_time", "ok", ValueOf("time", IntCell(get_start_time(traj))), NoTraj)

GetEndTime ==
    /\ CanQuery
    /\ Query("get_end_time", "ok", ValueOf("time", IntCell(get_end_time(traj))), NoTraj)

IsValid ==
    /\ CanQuery
    /\ Query("is_valid", "ok", ValueOf("bool", BoolCell(is_valid(traj))), NoTraj)

NextQuery ==
    \/ GetRowAt
    \/ GetPositionAt
    \/ GetSegmentBetween
    \/ GetLinestringBetween
    \/ Size
    \/ GetStartTime
    \/ GetEndTime
    \/ IsValid

SpecQuery == Init /\ [][NextQuery]_vars

----------------------------------------------------------------------------
(* Positions and rows by time *)

FirstTime == traj.df.index[1]

LastTime == traj.df.index[size(traj)]

IsSampleTime(time) == \E i \in Rows(traj.df) : traj.df.index[i] = time

RowOfTime(time) == CHOOSE i \in Rows(traj.df) : traj.df.index[i] = time

IsFloatPoint(pt) == IsFloat(pt[1]) /\ IsFloat(pt[2])

(* C13: get_position_at(t, method) raises the out-of-range error for every *)
(* t before the first or after the last timestamp, whatever the method;    *)
(* for t in range it returns a position when the method is one of nearest, *)
(* interpolated, ffill, bfill and raises the invalid-method error          *)
(* otherwise.                                                              *)
C13_PositionAtRangeAndMethod ==
    last.op = "get_position_at" =>
      IF out.t1 < FirstTime \/ out.t1 > LastTime
      THEN last.result = "ValueError: outside time range" /\ out.kind = "error"
      ELSE IF out.method \in {"nearest", "interpolated", "ffill", "bfill"}
      THEN last.result = "ok" /\ out.kind = "point" /\ IsFloatPoint(out.pt)
      ELSE last.result = "ValueError: invalid method" /\ out.kind = "error"

C13_Witness ==
    /\ last.op = "get_position_at"
    /\ size(traj) = 3
    /\ out.t1 = LastTime
    /\ out.method = "nearest"
    /\ out.kind = "point"
    /\ out.pt = FPt(traj.df.geometry[3])
    /\ out.pt # FPt(traj.df.geometry[2])

(* C14: get_position_at(t, "interpolated") at the timestamp t of a sample  *)
(* (t, p) returns exactly p.                                               *)
C14_RoundTrip ==
    (last.op = "get_position_at" /\ out.method = "interpolated"
       /\ IsSampleTime(out.t1)) =>
      /\ last.result = "ok"
      /\ out.pt = FPt(traj.df.geometry[RowOfTime(out.t1)])

C14_Witness ==
    /\ last.op = "get_position_at"
    /\ out.method = "interpolated"
    /\ size(traj) = 3
    /\ out.t1 = traj.df.index[2]
    /\ traj.df.geometry[2] # traj.df.geometry[1]
    /\ traj.df.geometry[2] # traj.df.geometry[3]
    /\ out.pt = FPt(traj.df.geometry[2])

(* the row of the latest sample before `time` *)
RowBefore(time) == SetMax({i \in Rows(traj.df) : traj.df.index[i] < time})

(* p0 + (time - t0) / (t1 - t0) * (p1 - p0), coordinate by coordinate *)
Lerp(x0, x1, t0, t1, time) == F(x0 * (t1 - t0) + (time - t0) * (x1 - x0), t1 - t0)

(* C15: for t in range that is no sample's timestamp, with (t0, p0) the     *)
(* latest sample before t and (t1, p1) the earliest after,                 *)
(* get_position_at(t, "interpolated") returns                              *)
(* p0 + (t - t0)/(t1 - t0) * (p1 - p0); when p0 = p1 it returns p0, and no  *)
(* error is raised.                                                        *)
C15_LinearInterpolation ==
    (last.op = "get_position_at" /\ out.method = "interpolated"
       /\ FirstTime < out.t1 /\ out.t1 < LastTime /\ ~IsSampleTime(out.t1)) =>
      LET i  == RowBefore(out.t1)
          t0 == traj.df.index[i]
          t1 == traj.df.index[i + 1]
          p0 == traj.df.geometry[i]
          p1 == traj.df.geometry[i + 1]
      IN  /\ last.result = "ok"
          /\ out.pt = <<Lerp(p0[1], p1[1], t0, t1, out.t1),
                        Lerp(p0[2], p1[2], t0, t1, out.t1)>>
          /\ p0 = p1 => out.pt = FPt(p0)

C15_Witness ==
    /\ last.op = "get_position_at"
    /\ out.method = "interpolated"
    /\ size(traj) = 2
    /\ traj.df.index = <<1, 4>>
    /\ traj.df.geometry = <<<<0, 0>>, <<3, 0>>>>
    /\ out.t1 = 2
    /\ out.pt = <<F(1, 1), F(0, 1)>>

(* C16: on a trajectory of at least 2 samples, get_row_at(t, method)       *)
(* returns the sample of timestamp t when there is one, for every method;  *)
(* otherwise "ffill" returns the sample of the largest timestamp <= t,     *)
(* "bfill" the sample of the smallest timestamp >= t, and "nearest" a      *)
(* sample that minimises |timestamp - t|.                                  *)
C16_RowAt ==
    (last.op = "get_row_at" /\ size(traj) >= 2) =>
      IF IsSampleTime(out.t1)
      THEN out.kind = "row" /\ out.row = RowOfTime(out.t1)
      ELSE /\ out.method = "ffill" =>
                /\ out.kind = "row"
                /\ traj.df.index[out.row] <= out.t1
                /\ \A j \in Rows(traj.df) :
                     traj.df.index[j] <= out.t1 => traj.df.index[j] <= traj.df.index[out.row]
           /\ out.method = "bfill" =>
                /\ out.kind = "row"
                /\ traj.df.index[out.row] >= out.t1
                /\ \A j \in Rows(traj.df) :
                     traj.df.index[j] >= out.t1 => traj.df.index[j] >= traj.df.index[out.row]
           /\ out.method = "nearest" =>
                /\ out.kind = "row"
                /\ \A j \in Rows(traj.df) :
                     Abs(traj.df.index[out.row] - out.t1) <= Abs(traj.df.index[j] - out.t1)

(* C18: on a trajectory of at least 2 samples, when at most one sample has *)
(* its timestamp in [t1, t2], get_segment_between(t1, t2) raises the       *)
(* RuntimeError of segment extraction and                                  *)
(* get_linestring_between(t1, t2, "within") raises its RuntimeError;       *)
(* neither returns a trajectory or a line.                                 *)
C18_DegenerateSegmentError ==
    ( /\ size(traj) >= 2
      /\ \/ last.op = "get_segment_between"
         \/ last.op = "get_linestring_between" /\ out.method = "within"
      /\ Cardinality({i \in Rows(traj.df) :
                        out.t1 <= traj.df.index[i] /\ traj.df.index[i] <= out.t2}) <= 1 )
      => /\ last.result = "RuntimeError"
         /\ out.kind = "error"
         /\ other = NoTraj

----------------------------------------------------------------------------
(* Two trajectories: an original and the trajectory obtained from it by    *)
(* copy, get_segment_between or to_crs.  same_df tells whether the two     *)
(* hold the same DataFrame object.                                         *)

(* copy returning a trajectory on the DataFrame object of the original *)
copy_same_table(t) ==
    {[result |-> IF o.ok THEN "ok" ELSE "ValueError", traj |-> o.traj,
      same_df |-> TRUE]
       : o \in InitFromDf(t.df, t.crs, t.id, t.parent)}

(* copy(): the outcomes [result, traj, same_df]; self.df.copy() and the    *)
(* selection in __init__ make new tables                                   *)
copy(t) ==
    {[result |-> IF o.ok THEN "ok" ELSE "ValueError", traj |-> o.traj,
      same_df |-> FALSE]
       : o \in InitFromDf(t.df, t.crs, t.id, t.parent)}

(* The projection of a point from one CRS to another (GeoDataFrame.to_crs) *)
(* stands for any map that changes the coordinates between two different   *)
(* CRS: degrees are worth 2 metres here.                                   *)
Reproject(p, from, to) ==
    IF from = to THEN p
    ELSE IF CrsIsGeographic(from) THEN <<2 * p[1], 2 * p[2]>>
    ELSE <<p[1] \div 2, p[2] \div 2>>

(* to_crs(crs): the outcomes [result, traj, same_df] *)
to_crs(t, crs) ==
    {IF c.result # "ok" THEN c
     ELSE [c EXCEPT
             !.traj = [c.traj EXCEPT
                         !.crs = crs,
                         !.df = [@ EXCEPT !.geometry =
                                   [i \in 1..Len(@) |-> Reproject(@[i], c.traj.crs, crs)]],
                         !.is_latlon = CrsIsGeographic(crs)]]
       : c \in copy(t)}

Owners == {TrajRef, OtherRef}

Owned(who) == IF who = TrajRef THEN traj ELSE other

(* What a call of an add_* method does to the DataFrame object its         *)
(* trajectory holds: it writes into it ("in place"), it assigns self.df a  *)
(* new object ("new table"), or neither.                                   *)
TableEffect(op, t, result) ==
    IF result \in {"RuntimeError", "UnitError"} THEN "none"
    ELSE IF op = "add_traj_id" THEN "in place"
    ELSE IF op = "add_angular_difference"
    THEN IF HasCol(t.df, get_direction_column_name(t))
         THEN (IF result = "ok" THEN "in place" ELSE "none")
         ELSE "new table"
    ELSE IF op = "add_direction" THEN "new table"
    ELSE IF result = "ok" THEN "new table"
    ELSE "none"

CanCallOn(who) ==
    /\ pc = "ready"
    /\ ncalls < MaxCalls
    /\ who = OtherRef => other # NoTraj

CallOn(who, op, name, units, r) ==
    LET effect == TableEffect(op, Owned(who), r.result)
        through == same_df /\ effect = "in place"
    IN  /\ traj' = IF who = TrajRef THEN r.traj
                   ELSE IF through THEN [traj EXCEPT !.df = r.traj.df] ELSE traj
        /\ other' = IF who = OtherRef THEN r.traj
                    ELSE IF through THEN [other EXCEPT !.df = r.traj.df] ELSE other
        /\ same_df' = (same_df /\ effect # "new table")
        /\ last' = CallOf(op, name, TRUE, units, r.result)
        /\ out' = [NoOut EXCEPT !.on = who]
        /\ ncalls' = ncalls + 1
        /\ UNCHANGED <<pc, input>>

AddTrajIdOn ==
    \E who \in Owners :
      /\ CanCallOn(who)
      /\ CallOn(who, "add_traj_id", TRAJ_ID_COL_NAME, NoUnits,
                add_traj_id(Owned(who), TRUE))

AddDirectionOn ==
    \E who \in Owners :
      /\ CanCallOn(who)
      /\ CallOn(who, "add_direction", DIRECTION_COL_NAME, NoUnits,
                add_direction(Owned(who), TRUE, DIRECTION_COL_NAME))

AddAngularDifferenceOn ==
    \E who \in Owners :
      /\ CanCallOn(who)
      /\ CallOn(who, "add_angular_difference", ANGULAR_DIFFERENCE_COL_NAME, NoUnits,
                add_angular_difference(Owned(who), TRUE, ANGULAR_DIFFERENCE_COL_NAME))

AddDistanceOn ==
    \E who \in Owners :
      /\ CanCallOn(who)
      /\ CallOn(who, "add_distance", DISTANCE_COL_NAME, UNITS(None, None, None),
                add_distance(Owned(who), TRUE, DISTANCE_COL_NAME, UNITS(None, None, None)))

AddSpeedOn ==
    \E who \in Owners :
      /\ CanCallOn(who)
      /\ CallOn(who, "add_speed", SPEED_COL_NAME, UNITS(None, None, None),
                add_speed(Owned(who), TRUE, SPEED_COL_NAME, UNITS(None, None, None)))

AddAccelerationOn ==
    \E who \in Owners :
      /\ CanCallOn(who)
      /\ CallOn(who, "add_acceleration", ACCELERATION_COL_NAME, UNITS(None, None, None),
                add_acceleration(Owned(who), TRUE, ACCELERATION_COL_NAME,
                                 UNITS(None, None, None)))

AddTimedeltaOn ==
    \E who \in Owners :
      /\ CanCallOn(who)
      /\ CallOn(who, "add_timedelta", TIMEDELTA_COL_NAME, NoUnits,
                add_timedelta(Owned(who), TRUE, TIMEDELTA_COL_NAME))

(* the original makes a second trajectory once; the call counts as one of  *)
(* the MaxCalls calls                                                      *)
CanDerive == pc = "ready" /\ other = NoTraj /\ ncalls < MaxCalls

Derive(op, t1, t2, method, r, shared) ==
    /\ last' = CallOf(op, None, FALSE, NoUnits, r.result)
    /\ out' = OutOf(TrajRef, t1, t2, method,
                    IF r.result = "ok" THEN "traj" ELSE "error", 0, NoPt, <<>>)
    /\ other' = r.traj
    /\ same_df' = shared
    /\ ncalls' = ncalls + 1
    /\ UNCHANGED <<pc, input, traj>>

Copy ==
    /\ CanDerive
    /\ \E r \in copy(traj) : Derive("copy", 0, 0, None, r, r.same_df)

SegmentBetween ==
    /\ CanDerive
    /\ \E t1, t2 \in QueryTimes :
         \E r \in get_segment_between(traj, TrajRef, t1, t2) :
           Derive("get_segment_between", t1, t2, None, r, FALSE)

ToCrs ==
    /\ CanDerive
    /\ \E crs \in CrsChoices :
         \E r \in to_crs(traj, crs) : Derive("to_crs", 0, 0, crs, r, r.same_df)

NextOwn ==
    \/ AddTrajIdOn
    \/ AddDirectionOn
    \/ AddAngularDifferenceOn
    \/ AddDistanceOn
    \/ AddSpeedOn
    \/ AddAccelerationOn
    \/ AddTimedeltaOn
    \/ Copy
    \/ SegmentBetween
    \/ ToCrs

SpecOwn == Init /\ [][NextOwn]_vars

----------------------------------------------------------------------------
(* Segments, ownership of the table, reprojection *)

(* the rows of the original with a timestamp in [t1, t2] *)
RowsWithin(t1, t2) ==
    {i \in Rows(traj.df) : t1 <= traj.df.index[i] /\ traj.df.index[i] <= t2}

(* C17: a successful get_segment_between(t1, t2) returns a trajectory      *)
(* whose samples are exactly the original's samples with                   *)
(* t1 <= timestamp <= t2, in the original's order, with the original's     *)
(* positions, columns and column values, and whose parent is the original. *)
C17_SegmentSamples ==
    (last.op = "get_segment_between" /\ last.result = "ok") =>
      LET keep == RowsWithin(out.t1, out.t2)
          lo == SetMin(keep)
      IN  /\ keep # {}
          /\ NRows(other.df) = Cardinality(keep)
          /\ \A k \in Rows(other.df) :
               /\ lo + k - 1 \in keep
               /\ other.df.index[k] = traj.df.index[lo + k - 1]
               /\ other.df.geometry[k] = traj.df.geometry[lo + k - 1]
          /\ Len(other.df.columns) = Len(traj.df.columns)
          /\ \A c \in 1..Len(traj.df.columns) :
               /\ other.df.columns[c].name = traj.df.columns[c].name
               /\ \A k \in Rows(other.df) :
                    other.df.columns[c].vals[k] = traj.df.columns[c].vals[lo + k - 1]
          /\ other.parent = TrajRef

C17_Witness ==
    /\ last.op = "get_segment_between"
    /\ last.result = "ok"
    /\ size(traj) = 3
    /\ size(other) = 2
    /\ out.t1 = traj.df.index[2]
    /\ out.t2 = traj.df.index[3]
    /\ HasCol(traj.df, SPEED_COL_NAME)
    /\ HasCol(other.df, SPEED_COL_NAME)
    /\ ColVals(other.df, SPEED_COL_NAME)[1] # ColVals(other.df, SPEED_COL_NAME)[2]
    /\ other.parent = TrajRef

(* C19: once a second trajectory was obtained by copy or                   *)
(* get_segment_between (or to_crs), an add_* call on it leaves the table   *)
(* of the original as it was, and an add_* call on the original leaves the *)
(* table of the second trajectory as it was.                               *)
C19_ExclusiveOwnership ==
    [][(last'.op \in AddOps /\ other # NoTraj) =>
         /\ out'.on = OtherRef => traj'.df = traj.df
         /\ out'.on = TrajRef => other'.df = other.df]_vars

C19_Witness ==
    /\ last.op = "add_traj_id"
    /\ last.result = "ok"
    /\ out.on = OtherRef
    /\ other.parent = NoTraj.parent
    /\ other.id = traj.id
    /\ size(other) = size(traj)
    /\ HasCol(other.df, TRAJ_ID_COL_NAME)
    /\ ~HasCol(traj.df, TRAJ_ID_COL_NAME)

(* C20: a successful to_crs(target) returns a trajectory whose crs is the  *)
(* target, whose is_latlon is the target's geographic flag and whose       *)
(* crs_units is the target's unit; the original's crs, is_latlon,          *)
(* crs_units and positions are as before.                                  *)
C20_ReprojectedDescriptor ==
    [][(last'.op = "to_crs" /\ last'.result = "ok") =>
         /\ other'.crs = out'.method
         /\ other'.is_latlon = CrsIsGeographic(out'.method)
         /\ other'.crs_units = CrsUnitName(out'.method)
         /\ traj'.crs = traj.crs
         /\ traj'.is_latlon = traj.is_latlon
         /\ traj'.crs_units = traj.crs_units
         /\ traj'.df.geometry = traj.df.geometry]_vars

----------------------------------------------------------------------------
(* Angular difference and the first rows of the acceleration *)

(* C22: on a trajectory of at least 2 samples, add_angular_difference with *)
(* a name that is free or may be overwritten succeeds whether or not a     *)
(* direction column exists and under whatever name direction was added;    *)
(* the columns after the call are the columns before it plus the name, and *)
(* row 1 of the new column is 0.                                           *)
C22_AngularDifferenceSucceeds ==
    [][( /\ last'.op = "add_angular_difference"
         /\ size(traj) >= 2
         /\ last'.overwrite \/ ~HasCol(traj.df, last'.name) ) =>
         /\ last'.result = "ok"
         /\ ColNames(traj'.df) = ColNames(traj.df) \cup {last'.name}
         /\ ColVals(traj'.df, last'.name)[1] = Zero]_vars

(* C28: after add_acceleration on a trajectory of at least 2 samples, the  *)
(* acceleration stored in row 1 and in row 2 is exactly 0, for every       *)
(* position, timestamp and unit.                                           *)
C28_FirstTwoAccelerationsZero ==
    (Stored({"add_acceleration"}) /\ size(traj) >= 2) =>
      /\ LastVals[1] = Zero
      /\ LastVals[2] = Zero

C28_Witness ==
    /\ Stored({"add_acceleration"})
    /\ size(traj) = 3
    /\ ~SamePosition(2)
    /\ last.units = UNITS("km", "h", "min")
    /\ LastVals[1] = Zero
    /\ LastVals[2] = Zero
    /\ LastVals[3] # Zero

----------------------------------------------------------------------------
(* Size, time range, validity; rows on the wrong side of t; identity of a  *)
(* copy                                                                    *)

(* C24: size() is the number of stored samples, get_start_time() is not    *)
(* later than get_end_time(), and is_valid() is true exactly when the      *)
(* trajectory has at least 2 samples and its first timestamp is earlier    *)
(* than its last.                                                          *)
C24_SizeRangeValidity ==
    /\ last.op = "size" => out.val = IntCell(Len(traj.df.index))
    /\ last.op = "get_start_time" =>
         \A i \in 1..Len(traj.df.index) : out.val[2] <= traj.df.index[i]
    /\ last.op = "get_end_time" =>
         \A i \in 1..Len(traj.df.index) : out.val[2] >= traj.df.index[i]
    /\ last.op = "is_valid" =>
         (out.val = BoolCell(TRUE)
            <=> (Len(traj.df.index) >= 2 /\ FirstTime < LastTime))

C24_Witness ==
    /\ last.op = "is_valid"
    /\ Len(traj.df.index) = 1
    /\ out.val = BoolCell(FALSE)

(* C25: on a trajectory of at least 2 samples, get_row_at(t, "ffill")      *)
(* returns no sample with a timestamp later than t and                     *)
(* get_row_at(t, "bfill") none with a timestamp earlier than t; for t      *)
(* before the first sample (ffill) or after the last (bfill) no sample is  *)
(* returned.                                                               *)
C25_NoRowFromWrongSide ==
    (last.op = "get_row_at" /\ size(traj) >= 2) =>
      /\ out.method = "ffill" =>
           /\ out.kind = "row" => traj.df.index[out.row] <= out.t1
           /\ out.t1 < FirstTime => out.kind # "row"
      /\ out.method = "bfill" =>
           /\ out.kind = "row" => traj.df.index[out.row] >= out.t1
           /\ out.t1 > LastTime => out.kind # "row"

(* C27: copy() returns a trajectory with the id, the obj_id, the parent,   *)
(* the crs and the table of the original; the result of to_crs has the     *)
(* id, the obj_id and the parent of the original.                          *)
C27_CopyKeepsIdentity ==
    (last.op \in {"copy", "to_crs"} /\ last.result = "ok") =>
      /\ other.id = traj.id
      /\ other.obj_id = traj.obj_id
      /\ other.parent = traj.parent
      /\ last.op = "copy" => (other.crs = traj.crs /\ other.df = traj.df)

----------------------------------------------------------------------------
(* Length of the trajectory                                                *)

RECURSIVE SumCells(_)
SumCells(vals) ==
    IF Len(vals) = 0 THEN Zero
    ELSE FAdd(vals[1], SumCells(Tail(vals)))

(* geopy's geodesic(a, b).m on two (latitude, longitude) tuples *)
geodesic_m(a, b) == measure_distance_geodesic(<<a[2], a[1]>>, <<b[2], b[1]>>)

LineStringLength(a, b) == F(LineLength(a, b), 1)

(* get_length with the tuples in (x, y) order *)
get_length_xy(t) ==
    LET pt_tuples == [i \in Rows(t.df) |-> <<t.df.geometry[i][1], t.df.geometry[i][2]>>]
    IN  IF Len(pt_tuples) < 2
        THEN [ok |-> FALSE, error |-> IF t.is_latlon THEN "TypeError" ELSE "ValueError",
              val |-> NaN]
        ELSE IF t.is_latlon
        THEN [ok |-> TRUE, error |-> "ok", val |-> SumCells([i \in 1..(Len(pt_tuples) - 1) |->
                                  geodesic_m(pt_tuples[i], pt_tuples[i + 1])])]
        ELSE [ok |-> TRUE, error |-> "ok",
              val |-> SumCells([i \in 1..(Len(pt_tuples) - 1) |->
                                  LineStringLength(pt_tuples[i], pt_tuples[i + 1])])]

(* get_length: the tuples are (y, x); geodesic on them adds the distances  *)
(* of the consecutive pairs and refuses a single tuple, LineString refuses *)
(* fewer than two coordinates                                              *)
get_length(t) ==
    LET pt_tuples == [i \in Rows(t.df) |-> <<t.df.geometry[i][2], t.df.geometry[i][1]>>]
    IN  IF Len(pt_tuples) < 2
        THEN [ok |-> FALSE, error |-> IF t.is_latlon THEN "TypeError" ELSE "ValueError",
              val |-> NaN]
        ELSE IF t.is_latlon
        THEN [ok |-> TRUE, error |-> "ok", val |-> SumCells([i \in 1..(Len(pt_tuples) - 1) |->
                                  geodesic_m(pt_tuples[i], pt_tuples[i + 1])])]
        ELSE [ok |-> TRUE, error |-> "ok",
              val |-> SumCells([i \in 1..(Len(pt_tuples) - 1) |->
                                  LineStringLength(pt_tuples[i], pt_tuples[i + 1])])]

(* get_length() reads the table and returns; the last add_* call stays in  *)
(* last                                                                    *)
GetLength ==
    /\ pc = "ready"
    /\ LET r == get_length(traj)
       IN  out' = ValueOf(IF r.ok THEN "length" ELSE r.error, r.val)
    /\ UNCHANGED <<pc, input, traj, last, ncalls, other, same_df>>

NextLength ==
    \/ AddDistance
    \/ GetLength

SpecLength == Init /\ [][NextLength]_vars

(* the distance between the samples i - 1 and i of the trajectory *)
StepDistance(i) ==
    IF traj.is_latlon
    THEN measure_distance_geodesic(traj.df.geometry[i - 1], traj.df.geometry[i])
    ELSE measure_distance_euclidean(traj.df.geometry[i - 1], traj.df.geometry[i])

----------------------------------------------------------------------------
(* Sampling interval                                                       *)

IsMissing(c) == c[1] \in {"nan", "nat", "none"}

(* Series.median(): the missing cells are skipped; the middle value of the *)
(* sorted rest, or the mean of the two middle values; missing when nothing *)
(* is left                                                                 *)
median(vals) ==
    LET I == {i \in 1..Len(vals) : ~IsMissing(vals[i])}
        n == Cardinality(I)
        Num(c) == F(c[2], c[3])
        Less(a, b) == FSub(Num(a), Num(b))[2] < 0
        Kth(k) == CHOOSE v \in {vals[i] : i \in I} :
                     /\ Cardinality({i \in I : Less(vals[i], v)}) < k
                     /\ k <= Cardinality({i \in I : ~Less(v, vals[i])})
        Mean(a, b) == LET h == FDiv(FAdd(Num(a), Num(b)), F(2, 1))
                      IN  <<a[1], h[2], h[3]>>
    IN  IF n = 0 THEN (IF \E i \in 1..Len(vals) : vals[i] = NaT THEN NaT ELSE NaN)
        ELSE IF n % 2 = 1 THEN Kth((n + 1) \div 2)
        ELSE Mean(Kth(n \div 2), Kth(n \div 2 + 1))

get_sampling_interval(t) ==
    IF t.timedelta_col_name # Unset /\ HasCol(t.df, t.timedelta_col_name)
    THEN median(ColVals(t.df, t.timedelta_col_name))
    ELSE median(ColVals(get_df_with_timedelta(t.df, TIMEDELTA_COL_NAME),
                        TIMEDELTA_COL_NAME))

(* get_sampling_interval() once, after any number of add_* calls; it       *)
(* assigns nothing to the trajectory                                       *)
GetSamplingInterval ==
    /\ pc = "ready"
    /\ out = NoOut
    /\ out' = ValueOf("interval", get_sampling_interval(traj))
    /\ UNCHANGED <<pc, input, traj, last, ncalls, other, same_df>>

NextInterval ==
    \/ AddTrajId
    \/ AddDirection
    \/ AddAngularDifference
    \/ AddDistance
    \/ AddSpeed
    \/ AddAcceleration
    \/ AddTimedelta
    \/ GetSamplingInterval

SpecInterval == Init /\ [][NextInterval]_vars

(* the median of the differences between consecutive timestamps; no       *)
(* duration when there is a single timestamp                               *)
MedianTimeDifference(index) ==
    IF Len(index) < 2 THEN NaT
    ELSE median([i \in 1..(Len(index) - 1) |-> Td(index[i + 1] - index[i])])

(* C21: on a trajectory of at least 2 samples a get_sampling_interval()    *)
(* call returns the median of the time differences between consecutive     *)
(* samples and leaves the trajectory, its table's columns and values       *)
(* included, as it was before the call.                                    *)
C21_SamplingIntervalIsMedian ==
    [][(size(traj) >= 2 /\ out = NoOut /\ out' # NoOut) =>
         /\ out'.val = MedianTimeDifference(traj.df.index)
         /\ traj' = traj]_vars

(* C26: on a trajectory of at least 2 samples, after at least one add_*    *)
(* call, successful or failed, the value get_sampling_interval() returned  *)
(* is a duration, the median of the differences between consecutive        *)
(* timestamps.                                                             *)
C26_IntervalAfterAdds ==
    (size(traj) >= 2 /\ out.kind = "interval" /\ ncalls >= 1) =>
      /\ out.val[1] \in {"timedelta", "nat"}
      /\ out.val = MedianTimeDifference(traj.df.index)

====
